---- MODULE Spec2Model ----
(***************************************************************************)
(* A model of cirq/ops/eigen_gate.py: EigenGate, a gate known by its       *)
(* eigendecomposition.  The state is the heap of EigenGate instances and   *)
(* the outcome of the last call made on them.                              *)
(*                                                                         *)
(* Numbers (exponents, eigen-angles, global_negate_rate) are exact         *)
(* rationals n/d in lowest terms with d > 0.  The exponents the model      *)
(* reaches are dyadic rationals of small magnitude, on which Python's      *)
(* float * and % by an integer period are exact.                           *)
(***************************************************************************)
EXTENDS Integers, Sequences, FiniteSets

VARIABLES gates, last

vars == <<gates, last>>

(* The largest number of EigenGate instances alive at once. *)
MaxGates == 2

----------------------------------------------------------------------------
(* Values: a number n/d, a value.Symbol, or one of Python's singletons.     *)

Abs(x) == IF x < 0 THEN -x ELSE x

RECURSIVE GCD(_, _)
GCD(a, b) == IF b = 0 THEN a ELSE GCD(b, a % b)

(* A plausible slip: the product of the periods taken for their lcm. *)
product_of_periods(a, b) == a * b

(* A plausible slip: np.gcd taken for np.lcm. *)
gcd_of_periods(a, b) == GCD(a, b)

LCM(a, b) == (a * b) \div GCD(a, b)

(* The number n/d in lowest terms, g being gcd(|n|, d). *)
Reduced(n, d, g) == [sym |-> "", n |-> n \div g, d |-> d \div g]

Num(n, d) == Reduced(n, d, GCD(Abs(n), d))

Symbol(name) == [sym |-> name, n |-> 0, d |-> 1]

None == [sym |-> "None", n |-> 0, d |-> 1]

NotImplemented == [sym |-> "NotImplemented", n |-> 0, d |-> 1]

(* A str, standing for any operand type that numbers cannot multiply. *)
OtherOperand == [sym |-> "str", n |-> 0, d |-> 1]

SymbolNames == {"a", "b"}

IsSymbol(v) == v.sym \in SymbolNames

IsNumber(v) == v.sym = ""

RatAdd(x, y) == Num(x.n * y.d + y.n * x.d, x.d * y.d)

RatSub(x, y) == Num(x.n * y.d - y.n * x.d, x.d * y.d)

RatMul(x, y) == Num(x.n * y.n, x.d * y.d)

RatAbs(x) == Num(Abs(x.n), x.d)

RatLess(x, y) == x.n * y.d < y.n * x.d

(* Python's x % p for a number x and an integer p > 0: x - p*floor(x/p). *)
PyMod(x, p) == Num(x.n % (p * x.d), x.d)

(* int(np.round(r)) for r = a/b > 0: nearest integer, halves to even. *)
RoundHalfEven(r) ==
    IF 2 * (r.n % r.d) < r.d THEN r.n \div r.d
    ELSE IF 2 * (r.n % r.d) > r.d THEN (r.n \div r.d) + 1
    ELSE IF (r.n \div r.d) % 2 = 0 THEN r.n \div r.d ELSE (r.n \div r.d) + 1

(* [f(x) for x in s] *)
SeqMap(f(_), s) == [k \in 1..Len(s) |-> f(s[k])]

----------------------------------------------------------------------------
(* The concrete subtypes of EigenGate used to exercise the class.           *)

Types == {"ZGate", "ZSubGate", "HalfGate", "WGate"}

(* The direct base class of each subtype. *)
BaseOf(t) == IF t = "ZSubGate" THEN "ZGate" ELSE "EigenGate"

(* isinstance(an instance of type t, cls) *)
isinstance(t, cls) == t = cls \/ BaseOf(t) = cls

(* The eigenvalue_exponent_factor of each component returned by            *)
(* _eigen_components; a component's projector is identified by its index.  *)
_eigen_components(t) ==
    CASE t = "ZGate"    -> <<Num(0, 1), Num(1, 1)>>
      [] t = "ZSubGate" -> <<Num(0, 1), Num(1, 1)>>
      [] t = "HalfGate" -> <<Num(1, 2)>>
      [] t = "WGate"    -> <<Num(0, 1), Num(3, 10)>>

(* Inputs of the constructor. *)
Exponents ==
    {Num(-1, 2), Num(0, 1), Num(3, 2), Num(2, 1), Num(7, 2), Num(39, 2),
     Symbol("a")}

Rates == {Num(0, 1), Num(-1, 2)}

(* Right operands of **. *)
Multipliers == {Num(-1, 1), Num(1, 2), Symbol("b"), OtherOperand}

(* Parameter resolvers: the value each one gives to Symbol("a"). *)
Resolvers == {Symbol("a"), Num(1, 2), Num(2, 1)}

----------------------------------------------------------------------------
(* EigenGate.__init__ *)
__init__(t, exponent, global_negate_rate) ==
    [type |-> t,
     _exponent |-> exponent,
     _global_negate_rate |-> global_negate_rate,
     _canonical_exponent_cached |-> None]

(* A plausible slip: the rebuilt gate takes the default global_negate_rate. *)
_with_exponent_default_rate(self, exponent) ==
    __init__(self.type, exponent, Num(0, 1))

(* EigenGate._with_exponent *)
_with_exponent(self, exponent) ==
    __init__(self.type, exponent, self._global_negate_rate)

RECURSIVE lcm_reduce(_)
lcm_reduce(s) ==
    IF Len(s) = 1 THEN s[1]
    ELSE LCM(lcm_reduce(SubSeq(s, 1, Len(s) - 1)), s[Len(s)])

(* abs(2/e) *)
real_period(e) == Num(2 * e.d, Abs(e.n))

(* The rest of _period once real_periods is computed. *)
period_of(real_periods) ==
    IF Len(real_periods) = 0 THEN Num(0, 1)
    ELSE IF \E k \in 1..Len(real_periods) :
                Num(RoundHalfEven(real_periods[k]), 1) # real_periods[k]
    THEN None
    ELSE Num(lcm_reduce(SeqMap(RoundHalfEven, real_periods)), 1)

(* EigenGate._period: None, or a number. *)
_period(self) ==
    period_of(
        SeqMap(real_period,
               SelectSeq(SeqMap(LAMBDA e : RatAdd(e, self._global_negate_rate),
                                _eigen_components(self.type)),
                         LAMBDA e : e.n # 0)))

(* A plausible slip: the exponent is never reduced modulo the period. *)
canonical_exponent_unreduced(self) == self._exponent

(* The exponent reduced by the period, when there is one to reduce by. *)
canonicalize(exponent, period) ==
    IF period = None \/ period.n = 0 \/ IsSymbol(exponent)
    THEN exponent
    ELSE PyMod(exponent, period.n)

(* The value the _canonical_exponent property computes on a cache miss. *)
canonical_exponent_computed(self) ==
    canonicalize(self._exponent, _period(self))

(* The outcome of a read that stores c in the empty cache. *)
cache_filled(self, c) ==
    [self    |-> [self EXCEPT !._canonical_exponent_cached = c],
     value   |-> c,
     queried |-> TRUE]

(* EigenGate._canonical_exponent: the instance afterwards, the value        *)
(* returned, and whether _period (hence _eigen_components) was called.     *)
_canonical_exponent(self) ==
    IF self._canonical_exponent_cached = None
    THEN cache_filled(self, canonical_exponent_computed(self))
    ELSE [self    |-> self,
          value   |-> self._canonical_exponent_cached,
          queried |-> FALSE]

(* A plausible slip: the identity tuple leaves the concrete type out. *)
_identity_tuple_untyped(self, canonical) ==
    <<"EigenGate", canonical, self._global_negate_rate>>

(* EigenGate._identity_tuple, given the canonical exponent read. *)
_identity_tuple(self, canonical) ==
    <<self.type, canonical, self._global_negate_rate>>

(* Python's hash of an identity tuple: a function of the tuple's value. *)
hash(t) ==
    LET code == CASE t[1] = "ZGate" -> 1 [] t[1] = "ZSubGate" -> 2
                  [] t[1] = "HalfGate" -> 3 [] t[1] = "WGate" -> 4
                  [] OTHER -> 0
        s    == IF t[2].sym = "" THEN 0 ELSE IF t[2].sym = "a" THEN 5 ELSE 6
    IN  (code + 3 * t[2].n + 5 * t[2].d + s + 7 * t[3].n + 11 * t[3].d) % 64

(* EigenGate._is_parameterized_ *)
_is_parameterized_(self) == IsSymbol(self._exponent)

(* A plausible slip: the negation is missing. *)
_has_unitary_unnegated(self) == _is_parameterized_(self)

(* EigenGate._has_unitary_ *)
_has_unitary_(self) == ~ _is_parameterized_(self)

(* 1j ** x: exp(i*pi*x/2), identified by x modulo 4. *)
ipow(x) == PyMod(x, 4)

(* The coefficient 1j**(2 * e * (half_turns + s)) of one component. *)
phase(e, s, half_turns) ==
    ipow(RatMul(RatMul(Num(2, 1), e), RatAdd(half_turns, s)))

(* EigenGate._unitary_ for a concrete exponent: the coefficient of each    *)
(* component's projector in the sum.                                       *)
_unitary_(self) ==
    SeqMap(LAMBDA half_turns :
               phase(self._exponent, self._global_negate_rate, half_turns),
           _eigen_components(self.type))

RatMin(s) == CHOOSE x \in {s[k] : k \in 1..Len(s)} :
                 \A k \in 1..Len(s) : ~ RatLess(s[k], x)

RatMax(s) == CHOOSE x \in {s[k] : k \in 1..Len(s)} :
                 \A k \in 1..Len(s) : ~ RatLess(x, s[k])

(* The factor 3.5 of _trace_distance_bound_. *)
TraceFactor == Num(7, 2)

(* A plausible slip: the abs() is missing. *)
_trace_distance_bound_signed(self) ==
    IF IsSymbol(self._exponent) THEN Num(1, 1)
    ELSE RatMul(RatMul(RatSub(RatMax(_eigen_components(self.type)),
                              RatMin(_eigen_components(self.type))),
                       self._exponent), TraceFactor)

(* EigenGate._trace_distance_bound_ *)
_trace_distance_bound_(self) ==
    IF IsSymbol(self._exponent) THEN Num(1, 1)
    ELSE RatAbs(RatMul(RatMul(RatSub(RatMax(_eigen_components(self.type)),
                                     RatMin(_eigen_components(self.type))),
                              self._exponent), TraceFactor))

(* protocols.mul(lhs, rhs, NotImplemented): the outcomes it may have. *)
mul(lhs, rhs) ==
    IF IsNumber(lhs) /\ IsNumber(rhs) THEN {RatMul(lhs, rhs)}
    ELSE IF lhs = OtherOperand \/ rhs = OtherOperand THEN {NotImplemented}
    ELSE {NotImplemented} \cup {Symbol(s) : s \in SymbolNames}

(* param_resolver.value_of(v) for the resolver giving Symbol("a") value r. *)
value_of(r, v) == IF v = Symbol("a") THEN r ELSE v

----------------------------------------------------------------------------
(* The record of a call: the method, its receiver and argument (heap       *)
(* indices, 0 when absent), what it returned, the instance it created (0   *)
(* when none) and whether it called _eigen_components.                     *)

Call(op, self, other, arg, ret, val, new, matrix, queried) ==
    [op |-> op, self |-> self, other |-> other, arg |-> arg, ret |-> ret,
     val |-> val, new |-> new, matrix |-> matrix, queried |-> queried]

Init ==
    /\ gates = << >>
    /\ last = Call("none", 0, 0, None, "None", None, 0, << >>, FALSE)

(* type(...)(exponent=..., global_negate_rate=...) *)
Construct(t, exponent, rate) ==
    /\ Len(gates) < MaxGates
    /\ gates' = Append(gates, __init__(t, exponent, rate))
    /\ last' = Call("__init__", Len(gates) + 1, 0, exponent, "instance", None,
                    Len(gates) + 1, << >>, FALSE)

(* A plausible slip: ** scales the receiver's exponent in place. *)
__pow__in_place(i, m) ==
    \E new_exponent \in mul(gates[i]._exponent, m) :
        IF new_exponent = NotImplemented
        THEN /\ gates' = gates
             /\ last' = Call("__pow__", i, 0, m, "NotImplemented",
                             NotImplemented, 0, << >>, FALSE)
        ELSE /\ gates' = [gates EXCEPT ![i]._exponent = new_exponent]
             /\ last' = Call("__pow__", i, 0, m, "instance", new_exponent,
                             i, << >>, FALSE)

(* gates[i] ** m *)
__pow__(i, m) ==
    \E new_exponent \in mul(gates[i]._exponent, m) :
        IF new_exponent = NotImplemented
        THEN /\ gates' = gates
             /\ last' = Call("__pow__", i, 0, m, "NotImplemented",
                             NotImplemented, 0, << >>, FALSE)
        ELSE /\ Len(gates) < MaxGates
             /\ gates' = Append(gates, _with_exponent(gates[i], new_exponent))
             /\ last' = Call("__pow__", i, 0, m, "instance", new_exponent,
                             Len(gates) + 1, << >>, FALSE)

(* gates[i]._resolve_parameters_(param_resolver) *)
_resolve_parameters_(i, r) ==
    /\ Len(gates) < MaxGates
    /\ gates' = Append(gates, _with_exponent(gates[i],
                                             value_of(r, gates[i]._exponent)))
    /\ last' = Call("_resolve_parameters_", i, 0, r, "instance",
                    value_of(r, gates[i]._exponent), Len(gates) + 1, << >>,
                    FALSE)

(* The heap and the call record after a read of the property returned r. *)
ReturnCanonicalExponent(i, r) ==
    /\ gates' = [gates EXCEPT ![i] = r.self]
    /\ last' = Call("_canonical_exponent", i, 0, None, "value", r.value, 0,
                    << >>, r.queried)

(* Reading gates[i]._canonical_exponent *)
ReadCanonicalExponent(i) ==
    ReturnCanonicalExponent(i, _canonical_exponent(gates[i]))

(* The call record after _period returned p. *)
ReturnPeriod(i, p) ==
    /\ gates' = gates
    /\ last' = Call("_period", i, 0, None,
                    IF p = None THEN "None" ELSE "value", p, 0, << >>, TRUE)

(* gates[i]._period() *)
CallPeriod(i) == ReturnPeriod(i, _period(gates[i]))

(* The comparison of the two identity tuples, a and b being the reads of   *)
(* the canonical exponents of self and other, h1 the heap after the first. *)
compare_tuples(h1, j, a, b) ==
    [heap    |-> [h1 EXCEPT ![j] = b.self],
     ret     |-> IF _identity_tuple(a.self, a.value)
                     = _identity_tuple(b.self, b.value)
                 THEN "True" ELSE "False",
     queried |-> a.queried \/ b.queried]

(* other._identity_tuple(), after self._identity_tuple() read a. *)
other_identity(h, i, j, a) ==
    compare_tuples([h EXCEPT ![i] = a.self], j, a,
                   _canonical_exponent(IF j = i THEN a.self ELSE h[j]))

(* EigenGate.__eq__(self, other) on the heap h: the heap afterwards and    *)
(* the value returned.                                                     *)
__eq__(h, i, j) ==
    IF ~ isinstance(h[j].type, h[i].type)
    THEN [heap |-> h, ret |-> "NotImplemented", queried |-> FALSE]
    ELSE other_identity(h, i, j, _canonical_exponent(h[i]))

(* When the reflected __eq__ declined too: identity. *)
identity_fallback(r2, i, j) ==
    IF r2.ret # "NotImplemented" THEN r2
    ELSE [heap |-> r2.heap,
          ret |-> IF i = j THEN "True" ELSE "False",
          queried |-> FALSE]

(* When __eq__ declined: the reflected __eq__. *)
reflected(r1, i, j) ==
    IF r1.ret # "NotImplemented" THEN r1
    ELSE identity_fallback(__eq__(r1.heap, j, i), i, j)

(* The expression h[i] == h[j]: __eq__, then the reflected __eq__ when the *)
(* first declines, then identity when both decline.                        *)
EqualsOperator(h, i, j) == reflected(__eq__(h, i, j), i, j)

(* The heap and the call record after == returned r. *)
ReturnEq(i, j, r) ==
    /\ gates' = r.heap
    /\ last' = Call("__eq__", i, j, None, r.ret, None, 0, << >>, r.queried)

(* gates[i] == gates[j] *)
Eq(i, j) == ReturnEq(i, j, EqualsOperator(gates, i, j))

(* The heap and the call record after `not self == other`. *)
ReturnNe(i, j, r) ==
    /\ gates' = r.heap
    /\ last' = Call("__ne__", i, j, None,
                    IF r.ret = "True" THEN "False" ELSE "True", None, 0,
                    << >>, r.queried)

(* gates[i] != gates[j], through EigenGate.__ne__ *)
__ne__(i, j) == ReturnNe(i, j, EqualsOperator(gates, i, j))

(* The heap and the call record after hashing the identity tuple read c. *)
ReturnHash(i, c) ==
    /\ gates' = [gates EXCEPT ![i] = c.self]
    /\ last' = Call("__hash__", i, 0, None, "value",
                    Num(hash(_identity_tuple(c.self, c.value)), 1), 0, << >>,
                    c.queried)

(* hash(gates[i]) *)
__hash__(i) == ReturnHash(i, _canonical_exponent(gates[i]))

(* gates[i]._trace_distance_bound_() *)
CallTraceDistanceBound(i) ==
    /\ gates' = gates
    /\ last' = Call("_trace_distance_bound_", i, 0, None, "value",
                    _trace_distance_bound_(gates[i]), 0, << >>,
                    ~ IsSymbol(gates[i]._exponent))

(* gates[i]._has_unitary_() *)
CallHasUnitary(i) ==
    /\ gates' = gates
    /\ last' = Call("_has_unitary_", i, 0, None,
                    IF _has_unitary_(gates[i]) THEN "True" ELSE "False",
                    None, 0, << >>, FALSE)

(* gates[i]._is_parameterized_() *)
CallIsParameterized(i) ==
    /\ gates' = gates
    /\ last' = Call("_is_parameterized_", i, 0, None,
                    IF _is_parameterized_(gates[i]) THEN "True" ELSE "False",
                    None, 0, << >>, FALSE)

(* gates[i]._unitary_() *)
CallUnitary(i) ==
    /\ gates' = gates
    /\ last' = IF _is_parameterized_(gates[i])
               THEN Call("_unitary_", i, 0, None, "NotImplemented",
                         NotImplemented, 0, << >>, FALSE)
               ELSE Call("_unitary_", i, 0, None, "matrix", None, 0,
                         _unitary_(gates[i]), TRUE)

Next ==
    \/ \E t \in Types, e \in Exponents, s \in Rates : Construct(t, e, s)
    \/ \E i \in 1..Len(gates), m \in Multipliers : __pow__(i, m)
    \/ \E i \in 1..Len(gates), r \in Resolvers : _resolve_parameters_(i, r)
    \/ \E i \in 1..Len(gates) : ReadCanonicalExponent(i)
    \/ \E i \in 1..Len(gates) : CallPeriod(i)
    \/ \E i \in 1..Len(gates), j \in 1..Len(gates) : Eq(i, j)
    \/ \E i \in 1..Len(gates), j \in 1..Len(gates) : __ne__(i, j)
    \/ \E i \in 1..Len(gates) : __hash__(i)
    \/ \E i \in 1..Len(gates) : CallTraceDistanceBound(i)
    \/ \E i \in 1..Len(gates) : CallHasUnitary(i)
    \/ \E i \in 1..Len(gates) : CallIsParameterized(i)
    \/ \E i \in 1..Len(gates) : CallUnitary(i)

Spec == Init /\ [][Next]_vars

----------------------------------------------------------------------------
(* Properties of EigenGate.                                                *)

(* The canonical exponent a read of the property returns for g. *)
CanonicalOf(g) == _canonical_exponent(g).value

(* hash(g) *)
HashOf(g) == hash(_identity_tuple(g, CanonicalOf(g)))

Concrete(g) == IsNumber(g._exponent)

HasIntegerPeriod(g) == _period(g) # None /\ _period(g).n # 0

(* g and h are of one subtype with one global_negate_rate, and h's         *)
(* exponent is g's plus one period.                                        *)
ShiftedByPeriod(g, h) ==
    /\ g.type = h.type
    /\ g._global_negate_rate = h._global_negate_rate
    /\ Concrete(g) /\ Concrete(h)
    /\ HasIntegerPeriod(g)
    /\ h._exponent = RatAdd(g._exponent, _period(g))

(* The shifted eigen-angles h_k + s of g. *)
ShiftedAngles(g) ==
    {RatAdd(_eigen_components(g.type)[k], g._global_negate_rate) :
        k \in 1..Len(_eigen_components(g.type))}

(* C1: a == b is True exactly when a and b have the same concrete subtype, *)
(* equal canonical exponents and equal global_negate_rate; in every other  *)
(* case the comparison yields False.                                      *)
C1_EqualityContract ==
    last.op = "__eq__" =>
        LET a == gates[last.self]
            b == gates[last.other]
        IN  /\ last.ret \in {"True", "False"}
            /\ (last.ret = "True") <=>
                   /\ a.type = b.type
                   /\ CanonicalOf(a) = CanonicalOf(b)
                   /\ a._global_negate_rate = b._global_negate_rate

C1_Witness ==
    /\ last.op = "__eq__"
    /\ last.ret = "True"
    /\ last.self # last.other
    /\ gates[last.self]._exponent # gates[last.other]._exponent

(* C2: with a nonzero period p and a concrete exponent, the canonical      *)
(* exponent lies in (-p/2, p/2] and differs from the exponent by a         *)
(* multiple of p; with no period or a symbolic exponent it is the exponent. *)
C2_CanonicalInHalfOpenInterval ==
    \A i \in 1..Len(gates) :
        LET g == gates[i]
            c == g._canonical_exponent_cached
            e == g._exponent
            p == _period(g)
        IN  c # None =>
              /\ (p # None /\ p.n # 0 /\ IsNumber(e)) =>
                    /\ -(p.n * c.d) < 2 * c.n
                    /\ 2 * c.n <= p.n * c.d
                    /\ RatSub(c, e).d = 1
                    /\ RatSub(c, e).n % p.n = 0
              /\ (p = None \/ IsSymbol(e)) => c = e

(* C3: with an integer period p, the instances built with exponents e and  *)
(* e + p (same subtype, same global_negate_rate) compare equal and hash    *)
(* identically, and an instance built with the canonical exponent of       *)
(* another has that same canonical exponent.                               *)
C3_PeriodShiftEqual ==
    /\ \A i \in 1..Len(gates), j \in 1..Len(gates) :
          ShiftedByPeriod(gates[i], gates[j]) =>
              /\ EqualsOperator(gates, i, j).ret = "True"
              /\ EqualsOperator(gates, j, i).ret = "True"
              /\ HashOf(gates[i]) = HashOf(gates[j])
    /\ (/\ last.op = "__eq__"
        /\ \/ ShiftedByPeriod(gates[last.self], gates[last.other])
           \/ ShiftedByPeriod(gates[last.other], gates[last.self]))
          => last.ret = "True"
    /\ \A i \in 1..Len(gates) :
          (Concrete(gates[i]) /\ HasIntegerPeriod(gates[i])) =>
              CanonicalOf(__init__(gates[i].type, CanonicalOf(gates[i]),
                                   gates[i]._global_negate_rate))
                  = CanonicalOf(gates[i])

C3_Witness ==
    /\ last.op = "__eq__"
    /\ last.ret = "True"
    /\ ShiftedByPeriod(gates[last.self], gates[last.other])
    /\ gates[last.self]._exponent.n < 0
    /\ gates[last.self]._canonical_exponent_cached # gates[last.self]._exponent

(* C4: G ** m returns NotImplemented, creating no instance, when the       *)
(* multiplication of G's exponent by m declines; otherwise it returns a    *)
(* new instance, distinct from G, of G's subtype, whose exponent is the    *)
(* product and whose global_negate_rate is G's.                            *)
C4_PowOutcomes ==
    [][last'.op = "__pow__" =>
        LET G == gates[last'.self]
            m == last'.arg
        IN  \/ /\ last'.ret = "NotImplemented"
               /\ NotImplemented \in mul(G._exponent, m)
               /\ gates' = gates
               /\ last'.new = 0
            \/ /\ last'.ret = "instance"
               /\ Len(gates') = Len(gates) + 1
               /\ SubSeq(gates', 1, Len(gates)) = gates
               /\ last'.new = Len(gates')
               /\ last'.new # last'.self
               /\ LET N == gates'[last'.new]
                  IN  /\ N.type = G.type
                      /\ N._global_negate_rate = G._global_negate_rate
                      /\ N._exponent = last'.val
                      /\ N._exponent \in mul(G._exponent, m) \ {NotImplemented}
                      /\ (IsNumber(G._exponent) /\ IsNumber(m)) =>
                            /\ IsNumber(N._exponent)
                            /\ N._exponent.n * (G._exponent.d * m.d)
                                 = G._exponent.n * m.n * N._exponent.d
    ]_vars

C4_Witness ==
    /\ last.op = "__pow__"
    /\ last.ret = "instance"
    /\ IsNumber(last.val)
    /\ gates[last.new]._global_negate_rate # Num(0, 1)
    /\ gates[last.new]._exponent # gates[last.self]._exponent

(* C5: _is_parameterized_ is true iff the exponent is symbolic,            *)
(* _has_unitary_ iff it is not; with a symbolic exponent _unitary_ returns *)
(* NotImplemented and _trace_distance_bound_ returns 1 without calling     *)
(* _eigen_components.                                                      *)
C5_SymbolicExponent ==
    /\ last.op = "_is_parameterized_" =>
          (last.ret = "True") <=> IsSymbol(gates[last.self]._exponent)
    /\ last.op = "_has_unitary_" =>
          (last.ret = "True") <=> ~ IsSymbol(gates[last.self]._exponent)
    /\ last.op \in {"_is_parameterized_", "_has_unitary_"} =>
          last.ret \in {"True", "False"}
    /\ (last.op = "_unitary_" /\ IsSymbol(gates[last.self]._exponent)) =>
          /\ last.ret = "NotImplemented"
          /\ last.matrix = << >>
          /\ ~ last.queried
    /\ (last.op = "_trace_distance_bound_"
            /\ IsSymbol(gates[last.self]._exponent)) =>
          /\ last.val = Num(1, 1)
          /\ ~ last.queried

C5_Witness ==
    /\ last.op = "_has_unitary_"
    /\ last.ret = "False"
    /\ IsSymbol(gates[last.self]._exponent)

(* C6: when every eigen-angle is zero after adding global_negate_rate,     *)
(* _period returns 0 and the canonical exponent is one fixed value, so two *)
(* such instances of one subtype and one global_negate_rate compare equal  *)
(* whatever their exponents.                                               *)
C6_DegenerateFixedValue ==
    /\ (last.op = "_period"
            /\ ShiftedAngles(gates[last.self]) = {Num(0, 1)}) =>
          last.val = Num(0, 1)
    /\ (/\ last.op = "__eq__"
        /\ gates[last.self].type = gates[last.other].type
        /\ gates[last.self]._global_negate_rate
             = gates[last.other]._global_negate_rate
        /\ ShiftedAngles(gates[last.self]) = {Num(0, 1)}
        /\ Concrete(gates[last.self]) /\ Concrete(gates[last.other])) =>
          /\ gates[last.self]._canonical_exponent_cached
               = gates[last.other]._canonical_exponent_cached
          /\ last.ret = "True"

(* The candidate periods |2/(h_k+s)| of g over the nonzero h_k+s. *)
Candidates(g) ==
    {Num(2 * x.d, Abs(x.n)) : x \in {y \in ShiftedAngles(g) : y.n # 0}}

(* C7: _period returns 0 when there is no candidate, None when some        *)
(* candidate is not an integer, and otherwise the least common multiple of *)
(* the candidates; angles {0, 1} with s = 0 give 2, angles {0, 0.3} with   *)
(* s = 0 give None; and a nonzero period times h_k+s is an even integer.   *)
C7_PeriodContract ==
    last.op = "_period" =>
        LET g == gates[last.self]
            C == Candidates(g)
            p == last.val
        IN  /\ C = {} => p = Num(0, 1)
            /\ (\E c \in C : c.d # 1) => (p = None /\ last.ret = "None")
            /\ (C # {} /\ \A c \in C : c.d = 1) =>
                  /\ IsNumber(p) /\ p.d = 1 /\ p.n > 0
                  /\ \A c \in C : p.n % c.n = 0
                  /\ \A q \in 1..(p.n - 1) : \E c \in C : q % c.n # 0
            /\ (g.type = "ZGate" /\ g._global_negate_rate = Num(0, 1)) =>
                  p = Num(2, 1)
            /\ (g.type = "WGate" /\ g._global_negate_rate = Num(0, 1)) =>
                  p = None
            /\ (p # None /\ p.n # 0) =>
                  \A x \in ShiftedAngles(g) :
                      LET y == RatMul(p, x) IN y.d = 1 /\ y.n % 2 = 0

C7_Witness ==
    /\ last.op = "_period"
    /\ last.val = Num(20, 1)
    /\ Cardinality(Candidates(gates[last.self])) = 2

(* The largest difference of two eigen-angles of g. *)
Spread(g) ==
    LET A == {_eigen_components(g.type)[k] :
                 k \in 1..Len(_eigen_components(g.type))}
        D == {RatSub(x, y) : x \in A, y \in A}
    IN  CHOOSE d \in D : \A o \in D : ~ RatLess(d, o)

(* C8 as stated: with a concrete exponent e of any sign,                   *)
(* _trace_distance_bound_ returns |max_angle - min_angle| * e * 3.5.       *)
C8_TraceBoundSigned ==
    (last.op = "_trace_distance_bound_" /\ Concrete(gates[last.self])) =>
        LET e == gates[last.self]._exponent
            d == Spread(gates[last.self])
        IN  /\ IsNumber(last.val)
            /\ last.val.n * (2 * d.d * e.d) = last.val.d * (7 * Abs(d.n) * e.n)

(* C8 amended: with a concrete exponent e, _trace_distance_bound_ returns  *)
(* |(max_angle - min_angle) * e * 3.5|, the unshifted eigen-angles' spread *)
(* times |e| times 3.5.                                                    *)
C8_TraceBoundAbsolute ==
    (last.op = "_trace_distance_bound_" /\ Concrete(gates[last.self])) =>
        LET e == gates[last.self]._exponent
            d == Spread(gates[last.self])
        IN  /\ IsNumber(last.val)
            /\ last.val.n >= 0
            /\ last.val.n * (2 * d.d * e.d)
                 = last.val.d * (7 * Abs(d.n) * Abs(e.n))
            /\ last.queried

C8_Witness ==
    /\ last.op = "_trace_distance_bound_"
    /\ Concrete(gates[last.self])
    /\ gates[last.self]._exponent.n < 0
    /\ last.val.n > 0

(* C9: no call changes an existing instance's exponent or                  *)
(* global_negate_rate; only the canonical-exponent cache changes, from     *)
(* empty to a value, once, and every later read returns that value.        *)
C9_Immutable ==
    [][/\ Len(gates') >= Len(gates)
       /\ \A i \in 1..Len(gates) :
             /\ gates'[i].type = gates[i].type
             /\ gates'[i]._exponent = gates[i]._exponent
             /\ gates'[i]._global_negate_rate = gates[i]._global_negate_rate
             /\ gates[i]._canonical_exponent_cached # None =>
                   /\ gates'[i]._canonical_exponent_cached
                        = gates[i]._canonical_exponent_cached
                   /\ (last'.op = "_canonical_exponent" /\ last'.self = i) =>
                         last'.val = gates[i]._canonical_exponent_cached
    ]_vars

C9_Witness ==
    /\ last.op = "_canonical_exponent"
    /\ ~ last.queried
    /\ last.val = gates[last.self]._canonical_exponent_cached
    /\ last.val # gates[last.self]._exponent

(* C10: when a == b is True for two instances with concrete exponents and  *)
(* the same eigen-decomposition, they share global_negate_rate s, for each *)
(* eigen-angle h the phases a.exponent*(h+s) and b.exponent*(h+s) are      *)
(* congruent modulo 2, and _unitary_ gives the same matrix for both.       *)
C10_EqualitySound ==
    (/\ last.op = "__eq__"
     /\ last.ret = "True"
     /\ Concrete(gates[last.self]) /\ Concrete(gates[last.other])
     /\ _eigen_components(gates[last.self].type)
          = _eigen_components(gates[last.other].type)) =>
        LET a == gates[last.self]
            b == gates[last.other]
        IN  /\ a._global_negate_rate = b._global_negate_rate
            /\ \A x \in ShiftedAngles(a) :
                  LET y == RatMul(RatSub(a._exponent, b._exponent), x)
                  IN  y.d = 1 /\ y.n % 2 = 0
            /\ _unitary_(a) = _unitary_(b)

C10_Witness ==
    /\ last.op = "__eq__"
    /\ last.ret = "True"
    /\ gates[last.self]._exponent # gates[last.other]._exponent
    /\ gates[last.self].type = "WGate"
    /\ gates[last.self]._global_negate_rate # Num(0, 1)

====
